---- MODULE Spec2Model ----
(***************************************************************************)
(* A model of sana-api-wrapper/main.py: the FastAPI application that loads *)
(* one diffusion pipeline in its lifespan context, answers GET /health and *)
(* serves POST /generate by synthesis, centre crop, a temporary bitmap and *)
(* the external cjpeg encoder.                                             *)
(*                                                                         *)
(* Scheduling.  Everything runs on one asyncio event loop.  The lifespan   *)
(* generator has no await before its yield and none after it, and neither  *)
(* endpoint function contains an await, so each of them holds the loop     *)
(* from its first line to its last: `loop` names the request whose handler *)
(* is running, and every other coroutine waits for Idle.  The steps of a   *)
(* running handler are kept as separate actions so that its intermediate   *)
(* states can be spoken about; clients may send further requests meanwhile.*)
(*                                                                         *)
(* Host.  The endpoint functions read the module-level registry ml_models, *)
(* so the model lets the ASGI host call them in every lifecycle phase (a   *)
(* host that runs no lifespan, or calls made around it).  The RuntimeError *)
(* that a failed start raises out of the lifespan aborts the startup of    *)
(* the server started by uvicorn.run, which then exits: HostExit.          *)
(***************************************************************************)
EXTENDS Integers, Sequences, FiniteSets, TLC

\* ---------------------------------------------------------------- bounds
NumReqs == 2
MaxDim == 10

\* The HTTP requests, GET /health and POST /generate alike, numbered in the
\* order they arrive.
Reqs == 1 .. NumReqs

\* ------------------------------------------------------- optional values
\* Python's None and a present value v, kept apart as <<>> and <<v>>.
None == << >>
Some(v) == << v >>

\* ---------------------------------------------------------- input domains
\* The JSON bodies a client may post to /generate: an empty or non-empty
\* prompt without a seed, a prompt with seed 0, a positive and a negative
\* seed, and a body without a prompt.
Bodies ==
    { [ prompt |-> Some(""), seed |-> None ],
      [ prompt |-> Some("cat"), seed |-> None ],
      [ prompt |-> Some("cat"), seed |-> Some(0) ],
      [ prompt |-> Some("cat"), seed |-> Some(1) ],
      [ prompt |-> Some("cat"), seed |-> Some(-1) ],
      [ prompt |-> None, seed |-> None ] }

\* The images the pipeline may return: a size and its pixel content.
ImageSizes == { << 4, 4 >> }
Pixels == { 0, 1 }
RawImages == [ size : ImageSizes, px : Pixels ]

VARIABLES
    ml_models,       \* the module-level registry dict (line 23)
    lifePc,          \* where the lifespan context manager stands
    startError,      \* the RuntimeError raised by a failed start, or None
    loop,            \* the request whose handler holds the event loop, or 0
    rq,              \* per request: route, payload, handler locals, response
    files,           \* the temporary files that exist on disk
    pipeline_calls   \* the invocations of the pipeline made so far

vars == << ml_models, lifePc, startError, loop, rq, files, pipeline_calls >>

Idle == 0

\* A host that runs the endpoint functions in a thread pool (plain def
\* handlers): a request need not wait for the loop.
LoopFreeAlways(l) == TRUE

\* The endpoint functions are coroutines without await: the host can start
\* one only when no other is running on the loop.
LoopFree(l) == l = Idle

\* A teardown run from another thread, whatever the loop is doing.
LifespanResumesAnytime(l) == TRUE

\* The lifespan generator is resumed by a task of the same loop.
LifespanResumes(l) == l = Idle

\* ------------------------------------------------------------ the registry
EmptyRegistry == [ k \in {} |-> "" ]

\* dict.get(key): the value, or None when the key is absent.
Get(m, k) == IF k \in DOMAIN m THEN Some(m[k]) ELSE None

\* ml_models["sana_sprint"] = pipeline; ml_models["device"] = device
Register(m, p, d) ==
    [ k \in DOMAIN m \cup { "sana_sprint", "device" } |->
        IF k = "sana_sprint" THEN p ELSE IF k = "device" THEN d ELSE m[k] ]

\* A teardown that empties the registry (ml_models.clear()).
CleanupClears(m) == EmptyRegistry

\* The finally block: delete the "sana_sprint" entry when it is there.
Cleanup(m) == [ k \in DOMAIN m \ { "sana_sprint" } |-> m[k] ]

\* A start that registers the pipeline before placing it on the device and
\* does not clean up on the error path.
AfterFailedStartEager(m) == Register(m, "pipeline", "cpu")

\* The registry a failed start leaves: the exception came before the
\* registration, and the finally block has run.
AfterFailedStart(m) == Cleanup(m)

\* A membership test on the wrong key.
ModelLoadedByDevice(m) == "device" \in DOMAIN m

\* "sana_sprint" in ml_models
ModelLoaded(m) == "sana_sprint" \in DOMAIN m

\* The body of the /health answer.
HealthBody(m) == [ status |-> "ok", model_loaded |-> ModelLoaded(m) ]

\* A health check that waits for the model before it answers.
HealthWaitsForModel(m) == ModelLoaded(m)

\* health_check has no await and no condition: once scheduled it answers.
HealthCanAnswer(m) == TRUE

\* ------------------------------------------------------------- generation
\* A handler without the availability check.
NotAvailableNever(pipeline) == FALSE

\* if not pipeline
NotAvailable(pipeline) == pipeline = None

\* torch.Generator(device).manual_seed(seed) if seed else None:
\* the truth value of an int is "non-zero".
MakeGenerator(seed) == IF seed # None /\ seed # Some(0) THEN seed ELSE None

\* What a generator seeded with s makes the pipeline return for a prompt:
\* some fixed function of the two.
SeededOutput(prompt, s) ==
    [ size |-> << 4, 4 >>,
      px |-> IF prompt = "" THEN s % 2 ELSE ((s + 2) \div 2) % 2 ]

\* The images one invocation may return: fixed by the seed of its generator,
\* any image when there is no generator.
PipelineOutputs(prompt, generator) ==
    IF generator = None THEN RawImages
    ELSE { SeededOutput(prompt, generator[1]) }

\* A crop that forgets to halve the margins.
CropBoxNotHalved(width, height) ==
    LET h0 == (3 * width) \div 2
        target_height == IF h0 > height THEN height ELSE h0
        target_width == IF h0 > height THEN (2 * height) \div 3 ELSE width
        left == width - target_width
        top == height - target_height
    IN  << left, top, left + target_width, top + target_height >>

\* The crop rectangle (left, top, right, bottom), lines 73-85.
\* int(width / target_ratio) and int(height * target_ratio) with
\* target_ratio = 2 / 3 are the floats' floors, 3w div 2 and 2h div 3.
CropBox(width, height) ==
    LET h0 == (3 * width) \div 2
        target_height == IF h0 > height THEN height ELSE h0
        target_width == IF h0 > height THEN (2 * height) \div 3 ELSE width
        left == (width - target_width) \div 2
        top == (height - target_height) \div 2
    IN  << left, top, left + target_width, top + target_height >>

\* subprocess.run without check=True.
EncoderNeverRaises(code) == FALSE

\* subprocess.run(..., check=True): a non-zero exit raises.
EncoderRaises(code) == code # 0

\* ------------------------------------------------------ request records
NewRequest ==
    [ pc |-> "idle", route |-> "", prompt |-> None, seed |-> None,
      phase |-> "", pipeline |-> None, device |-> None, generator |-> None,
      raw |-> None, box |-> None, exit |-> None, img_data |-> None,
      status |-> 0, detail |-> "", error |-> "", health |-> None ]

\* raise HTTPException(status_code=500, detail=f"Image generation failed: {e}")
Failed(q, e) ==
    [ q EXCEPT !.pc = "done", !.status = 500,
               !.detail = "Image generation failed", !.error = e ]

\* One pipeline invocation, as a call counter on the model would log it.
Call(r, q, g) ==
    [ req |-> r, prompt |-> q.prompt[1], num_inference_steps |-> 2,
      generator |-> g ]

BmpOf(r) == << r, "bmp" >>
JpgOf(r) == << r, "jpg" >>

Init ==
    /\ ml_models = EmptyRegistry
    /\ lifePc = "starting"
    /\ startError = None
    /\ loop = Idle
    /\ rq = [ r \in Reqs |-> NewRequest ]
    /\ files = {}
    /\ pipeline_calls = {}

\* ------------------------------------------------------------- lifecycle
\* lifetime up to its yield: device choice, from_pretrained, to(device),
\* registration.
StartOk ==
    /\ lifePc = "starting"
    /\ loop = Idle
    /\ \E device \in { "cuda", "cpu" } :
          ml_models' = Register(ml_models, "pipeline", device)
    /\ lifePc' = "ready"
    /\ UNCHANGED << startError, loop, rq, files, pipeline_calls >>

\* from_pretrained or to(device) raises: except re-raises RuntimeError with
\* the cause, finally cleans up.
StartFail ==
    /\ lifePc = "starting"
    /\ loop = Idle
    /\ \E cause \in { "from_pretrained", "to_device" } :
          startError' = Some(<< "Failed to load model", cause >>)
    /\ ml_models' = AfterFailedStart(ml_models)
    /\ lifePc' = "failed"
    /\ UNCHANGED << loop, rq, files, pipeline_calls >>

\* The RuntimeError leaves the lifespan: the server that uvicorn.run started
\* gives up its startup and the process ends.
HostExit ==
    /\ lifePc = "failed"
    /\ loop = Idle
    /\ lifePc' = "exited"
    /\ UNCHANGED << ml_models, startError, loop, rq, files, pipeline_calls >>

\* The host dispatches requests as long as its process runs.
HostServing == lifePc # "exited"

\* The host leaves the lifespan context: the generator resumes after its
\* yield and runs the finally block.
Stop ==
    /\ lifePc = "ready"
    /\ LifespanResumes(loop)
    /\ ml_models' = Cleanup(ml_models)
    /\ lifePc' = "stopped"
    /\ UNCHANGED << startError, loop, rq, files, pipeline_calls >>

\* ---------------------------------------------------------------- clients
Arrives(r) ==
    /\ rq[r].pc = "idle"
    /\ IF r = 1 THEN TRUE ELSE rq[r - 1].pc # "idle"

SendHealth(r) ==
    /\ Arrives(r)
    /\ rq' = [ rq EXCEPT ![r].pc = "pending", ![r].route = "/health" ]
    /\ UNCHANGED << ml_models, lifePc, startError, loop, files, pipeline_calls >>

SendGenerate(r) ==
    /\ Arrives(r)
    /\ \E b \in Bodies :
          rq' = [ rq EXCEPT ![r].pc = "pending", ![r].route = "/generate",
                            ![r].prompt = b.prompt, ![r].seed = b.seed ]
    /\ UNCHANGED << ml_models, lifePc, startError, loop, files, pipeline_calls >>

\* ---------------------------------------------------------------- /health
health_check(r) ==
    /\ rq[r].pc = "pending"
    /\ rq[r].route = "/health"
    /\ LoopFree(loop)
    /\ HostServing
    /\ HealthCanAnswer(ml_models)
    /\ rq' = [ rq EXCEPT ![r].pc = "done", ![r].status = 200,
                         ![r].health = Some(HealthBody(ml_models)),
                         ![r].phase = lifePc ]
    /\ UNCHANGED << ml_models, lifePc, startError, loop, files, pipeline_calls >>

\* -------------------------------------------------------------- /generate
\* GenerationRequest: prompt is a required str (any str, the empty one too),
\* seed an optional int.  A body that does not fit is answered 422 and the
\* endpoint function is not called.
ValidBody(q) == q.prompt # None

RejectBody(r) ==
    /\ rq[r].pc = "pending"
    /\ rq[r].route = "/generate"
    /\ LoopFree(loop)
    /\ HostServing
    /\ ~ ValidBody(rq[r])
    /\ rq' = [ rq EXCEPT ![r].pc = "done", ![r].status = 422,
                         ![r].detail = "validation error" ]
    /\ UNCHANGED << ml_models, lifePc, startError, loop, files, pipeline_calls >>

\* A handler that loads the model itself when the registry has none.
EnterLazyLoad(r) ==
    /\ rq[r].pc = "pending"
    /\ rq[r].route = "/generate"
    /\ LoopFree(loop)
    /\ HostServing
    /\ ValidBody(rq[r])
    /\ ml_models' = IF ModelLoaded(ml_models) THEN ml_models
                    ELSE Register(ml_models, "pipeline", "cpu")
    /\ rq' = [ rq EXCEPT ![r].pc = "generate", ![r].phase = lifePc,
                         ![r].pipeline = Some("pipeline"),
                         ![r].device = Get(ml_models', "device") ]
    /\ loop' = r
    /\ UNCHANGED << lifePc, startError, files, pipeline_calls >>

\* api_generate_image, lines 98-103: the two registry reads and the
\* availability check.  Without a pipeline the handler ends here.
Enter(r) ==
    /\ rq[r].pc = "pending"
    /\ rq[r].route = "/generate"
    /\ LoopFree(loop)
    /\ HostServing
    /\ ValidBody(rq[r])
    /\ LET pipeline == Get(ml_models, "sana_sprint")
           device == Get(ml_models, "device")
           q == [ rq[r] EXCEPT !.phase = lifePc, !.pipeline = pipeline,
                               !.device = device ]
       IN  IF NotAvailable(pipeline)
           THEN /\ rq' = [ rq EXCEPT ![r] =
                             [ q EXCEPT !.pc = "done", !.status = 500,
                                 !.detail = "Image generation model not available" ] ]
                /\ loop' = Idle
           ELSE /\ rq' = [ rq EXCEPT ![r] = [ q EXCEPT !.pc = "generate" ] ]
                /\ loop' = r
    /\ UNCHANGED << ml_models, lifePc, startError, files, pipeline_calls >>

\* generate_image, lines 64-70: the generator and the pipeline call.
SynthOk(r) ==
    /\ loop = r
    /\ rq[r].pc = "generate"
    /\ rq[r].pipeline # None
    /\ LET g == MakeGenerator(rq[r].seed)
       IN  /\ \E out \in PipelineOutputs(rq[r].prompt[1], g) :
                rq' = [ rq EXCEPT ![r].pc = "crop", ![r].generator = g,
                                  ![r].raw = Some(out) ]
           /\ pipeline_calls' = pipeline_calls \cup { Call(r, rq[r], g) }
    /\ UNCHANGED << ml_models, lifePc, startError, loop, files >>

\* A synthesis failure after the temporary bitmap was already allocated.
SynthFailAfterTemp(r) ==
    /\ loop = r
    /\ rq[r].pc = "generate"
    /\ LET g == MakeGenerator(rq[r].seed)
       IN  IF rq[r].pipeline = None
           THEN /\ rq' = [ rq EXCEPT ![r] = Failed(rq[r], "TypeError") ]
                /\ UNCHANGED pipeline_calls
           ELSE /\ rq' = [ rq EXCEPT ![r] =
                             Failed([ rq[r] EXCEPT !.generator = g ],
                                    "InferenceError") ]
                /\ pipeline_calls' = pipeline_calls \cup { Call(r, rq[r], g) }
    /\ loop' = Idle
    /\ files' = files \cup { BmpOf(r) }
    /\ UNCHANGED << ml_models, lifePc, startError >>

\* The pipeline call raises.  A pipeline that raises was invoked; calling
\* None raises TypeError and invokes nothing.
SynthFail(r) ==
    /\ loop = r
    /\ rq[r].pc = "generate"
    /\ LET g == MakeGenerator(rq[r].seed)
       IN  IF rq[r].pipeline = None
           THEN /\ rq' = [ rq EXCEPT ![r] = Failed(rq[r], "TypeError") ]
                /\ UNCHANGED pipeline_calls
           ELSE /\ rq' = [ rq EXCEPT ![r] =
                             Failed([ rq[r] EXCEPT !.generator = g ],
                                    "InferenceError") ]
                /\ pipeline_calls' = pipeline_calls \cup { Call(r, rq[r], g) }
    /\ loop' = Idle
    /\ UNCHANGED << ml_models, lifePc, startError, files >>

\* generate_image, lines 73-86: the crop rectangle and image.crop.
CropOk(r) ==
    /\ loop = r
    /\ rq[r].pc = "crop"
    /\ LET size == rq[r].raw[1].size
       IN  rq' = [ rq EXCEPT ![r].pc = "write_bmp",
                             ![r].box = CropBox(size[1], size[2]) ]
    /\ UNCHANGED << ml_models, lifePc, startError, loop, files, pipeline_calls >>

CropFail(r) ==
    /\ loop = r
    /\ rq[r].pc = "crop"
    /\ rq' = [ rq EXCEPT ![r] = Failed(rq[r], "CropError") ]
    /\ loop' = Idle
    /\ UNCHANGED << ml_models, lifePc, startError, files, pipeline_calls >>

\* lines 114-115: NamedTemporaryFile(delete=False, suffix=".bmp") creates
\* the file and pil_image.save writes it.  Leaving the with block closes the
\* file and, delete being False, keeps it.
WriteBmpOk(r) ==
    /\ loop = r
    /\ rq[r].pc = "write_bmp"
    /\ files' = files \cup { BmpOf(r) }
    /\ rq' = [ rq EXCEPT ![r].pc = "encode" ]
    /\ UNCHANGED << ml_models, lifePc, startError, loop, pipeline_calls >>

\* pil_image.save raises: the file was created, the exception leaves the
\* with block, the handler answers 500.
WriteBmpFail(r) ==
    /\ loop = r
    /\ rq[r].pc = "write_bmp"
    /\ files' = files \cup { BmpOf(r) }
    /\ rq' = [ rq EXCEPT ![r] = Failed(rq[r], "SaveError") ]
    /\ loop' = Idle
    /\ UNCHANGED << ml_models, lifePc, startError, pipeline_calls >>

\* lines 118-122: NamedTemporaryFile(delete=False, suffix=".jpg") creates
\* the output file, cjpeg runs and exits with a code; check=True turns a
\* non-zero code into CalledProcessError.
RunEncoder(r) ==
    /\ loop = r
    /\ rq[r].pc = "encode"
    /\ files' = files \cup { JpgOf(r) }
    /\ \E code \in { 0, 1 } :
          IF EncoderRaises(code)
          THEN /\ rq' = [ rq EXCEPT ![r] =
                            Failed([ rq[r] EXCEPT !.exit = Some(code) ],
                                   "CalledProcessError") ]
               /\ loop' = Idle
          ELSE /\ rq' = [ rq EXCEPT ![r].pc = "read", ![r].exit = Some(code) ]
               /\ loop' = loop
    /\ UNCHANGED << ml_models, lifePc, startError, pipeline_calls >>

\* cjpeg is not on PATH: subprocess.run raises FileNotFoundError and no
\* process ran.
EncoderMissing(r) ==
    /\ loop = r
    /\ rq[r].pc = "encode"
    /\ files' = files \cup { JpgOf(r) }
    /\ rq' = [ rq EXCEPT ![r] = Failed(rq[r], "FileNotFoundError") ]
    /\ loop' = Idle
    /\ UNCHANGED << ml_models, lifePc, startError, pipeline_calls >>

\* lines 123-126: the output file is read in full and returned as image/jpeg.
ReadOk(r) ==
    /\ loop = r
    /\ rq[r].pc = "read"
    /\ rq' = [ rq EXCEPT ![r].pc = "done", ![r].status = 200,
                         ![r].img_data = Some("jpeg"),
                         ![r].detail = "image/jpeg" ]
    /\ loop' = Idle
    /\ UNCHANGED << ml_models, lifePc, startError, files, pipeline_calls >>

\* An error path that runs the encoder again instead of answering.
ReadFailRetriesEncoder(r) ==
    /\ loop = r
    /\ rq[r].pc = "read"
    /\ rq' = [ rq EXCEPT ![r].pc = "encode" ]
    /\ UNCHANGED << ml_models, lifePc, startError, loop, files,
                    pipeline_calls >>

\* An error path that also evicts the model from the registry.
ReadFailEvictsModel(r) ==
    /\ loop = r
    /\ rq[r].pc = "read"
    /\ rq' = [ rq EXCEPT ![r] = Failed(rq[r], "ReadError") ]
    /\ loop' = Idle
    /\ ml_models' = Cleanup(ml_models)
    /\ UNCHANGED << lifePc, startError, files, pipeline_calls >>

ReadFail(r) ==
    /\ loop = r
    /\ rq[r].pc = "read"
    /\ rq' = [ rq EXCEPT ![r] = Failed(rq[r], "ReadError") ]
    /\ loop' = Idle
    /\ UNCHANGED << ml_models, lifePc, startError, files, pipeline_calls >>

\* The steps of the handler that holds the loop.
Step(r) ==
    \/ SynthOk(r) \/ SynthFail(r)
    \/ CropOk(r) \/ CropFail(r)
    \/ WriteBmpOk(r) \/ WriteBmpFail(r)
    \/ RunEncoder(r) \/ EncoderMissing(r)
    \/ ReadOk(r) \/ ReadFail(r)

Next ==
    \/ StartOk
    \/ StartFail
    \/ HostExit
    \/ Stop
    \/ \E r \in Reqs :
          \/ SendHealth(r) \/ SendGenerate(r)
          \/ health_check(r) \/ RejectBody(r) \/ Enter(r)
          \/ Step(r)

Spec == Init /\ [][Next]_vars

\* The event loop runs a handler to its end, and runs a scheduled health
\* check once it is free.
FairSpec ==
    /\ Spec
    /\ WF_vars(\E r \in Reqs : Step(r))
    /\ WF_vars(\E r \in Reqs : health_check(r))

\* ------------------------------------------------- the crop on its own
\* A handler at its crop step, holding an image of any size up to MaxDim.
CropInit ==
    /\ ml_models = Register(EmptyRegistry, "pipeline", "cpu")
    /\ lifePc = "ready"
    /\ startError = None
    /\ loop = 1
    /\ \E w \in 1 .. MaxDim, h \in 1 .. MaxDim :
          rq = [ r \in Reqs |->
                   IF r = 1
                   THEN [ NewRequest EXCEPT
                            !.pc = "crop", !.route = "/generate",
                            !.prompt = Some("cat"), !.phase = "ready",
                            !.pipeline = Some("pipeline"),
                            !.device = Some("cpu"),
                            !.raw = Some([ size |-> << w, h >>, px |-> 0 ]) ]
                   ELSE NewRequest ]
    /\ files = {}
    /\ pipeline_calls =
          { [ req |-> 1, prompt |-> "cat", num_inference_steps |-> 2,
              generator |-> None ] }

CropNext == \E r \in Reqs : CropOk(r)

CropSpec == CropInit /\ [][CropNext]_vars

\* ------------------------------------------------------------ vocabulary
Abs(x) == IF x < 0 THEN -x ELSE x

IsGenerate(r) == rq[r].route = "/generate"
IsHealth(r) == rq[r].route = "/health"
Done(r) == rq[r].pc = "done"
Invoked(r) == \E c \in pipeline_calls : c.req = r
HasTempFile(r) == BmpOf(r) \in files \/ JpgOf(r) \in files
Cropped(r) == rq[r].box # None
SrcW(r) == rq[r].raw[1].size[1]
SrcH(r) == rq[r].raw[1].size[2]
CropW(r) == rq[r].box[3] - rq[r].box[1]
CropH(r) == rq[r].box[4] - rq[r].box[2]
StartFailed == startError # None
InSynthesis(r) == rq[r].pc = "generate"
StageRank(pc) ==
    CASE pc = "idle" -> 0
      [] pc = "pending" -> 1
      [] pc = "generate" -> 2
      [] pc = "crop" -> 3
      [] pc = "write_bmp" -> 4
      [] pc = "encode" -> 5
      [] pc = "read" -> 6
      [] pc = "done" -> 7
CallsOf(r) == { c \in pipeline_calls : c.req = r }
InHandler(r) ==
    rq[r].pc \in { "generate", "crop", "write_bmp", "encode", "read" }
HealthAnswered(r) ==
    /\ Done(r)
    /\ rq[r].status = 200
    /\ rq[r].health # None
    /\ rq[r].health[1].status = "ok"

\* ------------------------------------------------------------------ C1
\* C1: once a POST /generate request has ended (200 or any failure), none
\* of the temporary files it created still exists.
C1_TempFilesRemoved ==
    \A r \in Reqs : Done(r) => ~ HasTempFile(r)

\* ------------------------------------------------------------------ C2
\* C2: /health reports model_loaded false before start has completed, true
\* after a successful start until stop runs, and false again after stop;
\* both for what the endpoint would answer in the current state and for
\* every answer it gave.
C2_HealthFollowsLifecycle ==
    /\ lifePc = "starting" => ~ HealthBody(ml_models).model_loaded
    /\ lifePc = "ready" => HealthBody(ml_models).model_loaded
    /\ lifePc = "stopped" => ~ HealthBody(ml_models).model_loaded
    /\ \A r \in Reqs :
          IsHealth(r) /\ Done(r) =>
             /\ rq[r].phase = "starting" => ~ rq[r].health[1].model_loaded
             /\ rq[r].phase = "ready" => rq[r].health[1].model_loaded
             /\ rq[r].phase = "stopped" => ~ rq[r].health[1].model_loaded

\* One health check answered true while ready, a later one false after stop.
C2_Witness ==
    \E r1 \in Reqs, r2 \in Reqs :
       /\ IsHealth(r1) /\ Done(r1) /\ rq[r1].phase = "ready"
       /\ rq[r1].health[1].model_loaded
       /\ IsHealth(r2) /\ Done(r2) /\ rq[r2].phase = "stopped"
       /\ ~ rq[r2].health[1].model_loaded

\* ------------------------------------------------------------------ C3
\* C3: a POST /generate request with an empty prompt never invokes the
\* pipeline and creates no temporary file.
C3_EmptyPromptRejected ==
    \A r \in Reqs :
       IsGenerate(r) /\ rq[r].prompt = Some("") =>
          ~ Invoked(r) /\ ~ HasTempFile(r)

\* ------------------------------------------------------------------ C4
\* C4: a POST /generate request handled while no model is loaded ends at
\* once with 500 "model not available": no pipeline call, no temporary
\* file, no encoder run.
C4_UnavailableShortCircuits ==
    \A r \in Reqs :
       IsGenerate(r) /\ rq[r].phase \in { "starting", "failed", "stopped" } =>
          /\ Done(r)
          /\ rq[r].status = 500
          /\ rq[r].detail = "Image generation model not available"
          /\ ~ Invoked(r)
          /\ ~ HasTempFile(r)
          /\ rq[r].exit = None
          /\ rq[r].raw = None

\* One request refused before the start, another after the stop.
C4_Witness ==
    \E r1 \in Reqs, r2 \in Reqs :
       /\ IsGenerate(r1) /\ Done(r1) /\ rq[r1].phase = "starting"
       /\ rq[r1].status = 500
       /\ IsGenerate(r2) /\ Done(r2) /\ rq[r2].phase = "stopped"
       /\ rq[r2].status = 500

\* ------------------------------------------------------------------ C5
\* C5: a request that provides a seed (0 included) invokes the pipeline with
\* a generator seeded with that seed, a request without a seed invokes it
\* without a generator, and two requests with the same prompt and the same
\* provided seed get the same raw image.
C5_ProvidedSeedIsUsed ==
    /\ \A c \in pipeline_calls : c.generator = rq[c.req].seed
    /\ \A r1 \in Reqs, r2 \in Reqs :
          /\ rq[r1].raw # None /\ rq[r2].raw # None
          /\ rq[r1].prompt = rq[r2].prompt
          /\ rq[r1].seed = rq[r2].seed /\ rq[r1].seed # None
          => rq[r1].raw = rq[r2].raw

\* ------------------------------------------------------------------ C6
\* C6: the crop rectangle of a w x h image (w, h >= 1) lies inside the
\* image, 0 <= left <= right <= w and 0 <= top <= bottom <= h, is centred
\* within one pixel on both axes, and its width is within one pixel of 2/3
\* of its height.
C6_CropBoxInsideCentredRatio ==
    \A r \in Reqs :
       Cropped(r) =>
          LET left == rq[r].box[1]
              top == rq[r].box[2]
              right == rq[r].box[3]
              bottom == rq[r].box[4]
          IN  /\ 0 <= left /\ left <= right /\ right <= SrcW(r)
              /\ 0 <= top /\ top <= bottom /\ bottom <= SrcH(r)
              /\ Abs(left - (SrcW(r) - right)) <= 1
              /\ Abs(top - (SrcH(r) - bottom)) <= 1
              /\ Abs(3 * CropW(r) - 2 * CropH(r)) <= 3

\* A 5 x 4 image: the rectangle is 2 x 4 with margins of 1 and 2 pixels.
C6_Witness ==
    \E r \in Reqs :
       /\ Cropped(r)
       /\ SrcW(r) = 5 /\ SrcH(r) = 4
       /\ rq[r].box = << 1, 0, 3, 4 >>

\* ------------------------------------------------------------------ C7
\* C7: for every image of at least 1 x 1 pixels the cropped width and the
\* cropped height are both at least 1.
C7_CropNonEmpty ==
    \A r \in Reqs : Cropped(r) => CropW(r) >= 1 /\ CropH(r) >= 1

\* ------------------------------------------------------------------ C8
\* C8: every failure raised in synthesis, crop, bitmap write, encoder run
\* (non-zero exit or missing binary) or output read ends the request with
\* 500 and a detail string, and a 200 answer with the JPEG bytes is given
\* only after the encoder exited 0 and its output was read in full.
C8_FailuresBecome500 ==
    \A r \in Reqs :
       IsGenerate(r) =>
          /\ rq[r].error # "" =>
                Done(r) /\ rq[r].status = 500 /\ rq[r].detail # ""
          /\ rq[r].exit \notin { None, Some(0) } =>
                Done(r) /\ rq[r].status = 500 /\ rq[r].error # ""
          /\ rq[r].status = 200 =>
                /\ rq[r].exit = Some(0)
                /\ rq[r].img_data # None
                /\ rq[r].error = ""
          /\ Done(r) => rq[r].status \in { 200, 422, 500 }

\* One request answered 200, another failed by the encoder's exit code 1.
C8_Witness ==
    \E r1 \in Reqs, r2 \in Reqs :
       /\ Done(r1) /\ rq[r1].status = 200 /\ rq[r1].exit = Some(0)
       /\ Done(r2) /\ rq[r2].status = 500 /\ rq[r2].exit = Some(1)
       /\ rq[r2].error = "CalledProcessError"

\* ------------------------------------------------------------------ C9
\* C9: after a failed start the service is never ready: the failure is
\* reported with its cause, the registry holds no model in that and every
\* later state, /health reports model_loaded false, and no POST /generate
\* invokes the pipeline.
C9_FailedStartNeverReady ==
    /\ [](lifePc \in { "failed", "exited" } <=> StartFailed)
    /\ [](StartFailed =>
            /\ startError[1][1] = "Failed to load model"
            /\ ~ ModelLoaded(ml_models)
            /\ pipeline_calls = {}
            /\ \A r \in Reqs :
                  /\ rq[r].pc \in { "idle", "pending", "done" }
                  /\ IsGenerate(r) /\ Done(r) => rq[r].status \in { 422, 500 }
                  /\ IsHealth(r) /\ rq[r].phase = "failed" =>
                        ~ rq[r].health[1].model_loaded)
    /\ [][StartFailed => StartFailed']_vars

\* After a failed start a POST /generate was refused and /health answered.
C9_Witness ==
    /\ StartFailed
    /\ \E r1 \in Reqs, r2 \in Reqs :
          /\ IsGenerate(r1) /\ Done(r1) /\ rq[r1].phase = "failed"
          /\ rq[r1].status = 500
          /\ IsHealth(r2) /\ Done(r2) /\ rq[r2].phase = "failed"

C11_SynthesisSerialized ==
    /\ \A r1 \in Reqs, r2 \in Reqs :
          InSynthesis(r1) /\ InSynthesis(r2) => r1 = r2
    /\ \A r \in Reqs : InHandler(r) <=> loop = r

\* One request is inside the pipeline call while another valid
\* POST /generate waits, the model being loaded.
C11_Witness ==
    \E r1 \in Reqs, r2 \in Reqs :
       /\ r1 # r2
       /\ InSynthesis(r1)
       /\ IsGenerate(r2) /\ rq[r2].pc = "pending" /\ ValidBody(rq[r2])
       /\ ModelLoaded(ml_models)

\* ----------------------------------------------------------------- C12
\* C12: the pipeline is invoked only while the service is ready: a request
\* between its availability check and the end of its handler finds the
\* start completed and the model still registered (the stop does not run
\* under it), and every invocation was made by a request that entered
\* while ready.
C12_InvokedOnlyWhileReady ==
    /\ \A r \in Reqs :
          InHandler(r) =>
             /\ lifePc = "ready"
             /\ rq[r].pipeline # None
             /\ Get(ml_models, "sana_sprint") = rq[r].pipeline
    /\ \A c \in pipeline_calls : rq[c.req].phase = "ready"

\* The stop has run after a request was served, and a request sent before
\* the start was refused.
C12_Witness ==
    \E r1 \in Reqs, r2 \in Reqs :
       /\ lifePc = "stopped"
       /\ Invoked(r1) /\ Done(r1) /\ rq[r1].status = 200
       /\ IsGenerate(r2) /\ Done(r2) /\ rq[r2].phase = "starting"
       /\ ~ Invoked(r2)

\* ----------------------------------------------------------------- C13
\* C13: no step of a GET /health or POST /generate request, successful or
\* failing, changes the registry (its model entry, its device entry) or the
\* lifecycle phase: only the start and the stop of the lifespan change the
\* registry.
RequestStep ==
    \E r \in Reqs :
       \/ SendHealth(r) \/ SendGenerate(r)
       \/ health_check(r) \/ RejectBody(r) \/ Enter(r)
       \/ Step(r)

C13_RequestsLeaveRegistry ==
    /\ [][RequestStep => ml_models' = ml_models /\ lifePc' = lifePc]_vars
    /\ [][ml_models' # ml_models => StartOk \/ Stop]_vars

\* With the model loaded, one request was answered 200 and another failed
\* while reading the encoder output; /generate was also refused before.
C13_Witness ==
    /\ lifePc = "ready"
    /\ Get(ml_models, "sana_sprint") = Some("pipeline")
    /\ "device" \in DOMAIN ml_models
    /\ \E r1 \in Reqs, r2 \in Reqs :
          /\ Done(r1) /\ rq[r1].status = 200
          /\ Done(r2) /\ rq[r2].error = "ReadError"

\* ----------------------------------------------------------------- C14
\* C14: a POST /generate request with a negative seed is rejected before
\* any expensive work: it never invokes the pipeline and creates no
\* temporary file.
C14_NegativeSeedRejected ==
    \A r \in Reqs :
       IsGenerate(r) /\ rq[r].seed # None /\ rq[r].seed[1] < 0 =>
          ~ Invoked(r) /\ ~ HasTempFile(r)

\* ----------------------------------------------------------------- C15
\* C15: the process has at most one model handle: the registry gains its
\* model entry only in the step that ends the start, the start never runs
\* again, and every request that got a pipeline from the registry got the
\* same one, the one registered as long as it is registered.
C15_OneModelHandle ==
    /\ [](\A r1 \in Reqs, r2 \in Reqs :
            rq[r1].pipeline # None /\ rq[r2].pipeline # None =>
               /\ rq[r1].pipeline = rq[r2].pipeline
               /\ ModelLoaded(ml_models) =>
                     Get(ml_models, "sana_sprint") = rq[r1].pipeline)
    /\ [][ModelLoaded(ml_models') /\ ~ ModelLoaded(ml_models) =>
             lifePc = "starting" /\ lifePc' = "ready"]_vars
    /\ [][ModelLoaded(ml_models) /\ ModelLoaded(ml_models') =>
             ml_models' = ml_models]_vars
    /\ [][lifePc # "starting" => lifePc' # "starting"]_vars

\* Two requests were served by the pipeline while ready.
C15_Witness ==
    \E r1 \in Reqs, r2 \in Reqs :
       /\ r1 # r2
       /\ Invoked(r1) /\ Invoked(r2)
       /\ rq[r1].pipeline = Some("pipeline")
       /\ rq[r2].pipeline = Some("pipeline")

\* ----------------------------------------------------------------- C16
\* C16: the teardown is idempotent: on a registry without model entry (the
\* empty one of a failed start, the one a stop has left) it changes nothing,
\* on a registry with a model entry it leaves none, and running it twice is
\* running it once; the failed start, which runs it with nothing loaded,
\* leaves the registry as it was.
C16_TeardownIdempotent ==
    /\ [](/\ ~ ModelLoaded(ml_models) => Cleanup(ml_models) = ml_models
          /\ ~ ModelLoaded(Cleanup(ml_models))
          /\ Cleanup(Cleanup(ml_models)) = Cleanup(ml_models)
          /\ lifePc \in { "failed", "exited", "stopped" } =>
                ~ ModelLoaded(ml_models))
    /\ [][StartFail => ml_models' = ml_models]_vars
    /\ [][Stop => ~ ModelLoaded(ml_models') /\
                  Get(ml_models', "device") = Get(ml_models, "device")]_vars

\* The stop has run: the registry keeps its device entry and no model.
C16_Witness ==
    /\ lifePc = "stopped"
    /\ ~ ModelLoaded(ml_models)
    /\ "device" \in DOMAIN ml_models

\* ----------------------------------------------------------------- C17
\* C17: a POST /generate request goes through availability check,
\* synthesis, crop, bitmap write, encoder, output read and response in this
\* order: each step moves it to the next stage, with the previous stage's
\* result in hand, or ends it with a 500; no stage is entered twice, an
\* ended request stays ended, and a 200 answer has gone through all stages.
C17_StageOrder ==
    /\ [](\A r \in Reqs :
            IsGenerate(r) =>
               /\ Cardinality(CallsOf(r)) <= 1
               /\ StageRank(rq[r].pc) \in 3..6 => rq[r].raw # None
               /\ StageRank(rq[r].pc) \in 4..6 => rq[r].box # None
               /\ StageRank(rq[r].pc) \in 5..6 => BmpOf(r) \in files
               /\ rq[r].pc = "read" => rq[r].exit = Some(0)
               /\ rq[r].error # "" => Done(r) /\ rq[r].status = 500
               /\ rq[r].status = 200 =>
                     /\ Done(r)
                     /\ Cardinality(CallsOf(r)) = 1
                     /\ rq[r].raw # None /\ rq[r].box # None
                     /\ BmpOf(r) \in files /\ JpgOf(r) \in files
                     /\ rq[r].exit = Some(0) /\ rq[r].img_data # None)
    /\ [][\A r \in Reqs :
            rq[r].route = "/generate" /\ rq'[r].pc # rq[r].pc =>
               \/ /\ StageRank(rq'[r].pc) = StageRank(rq[r].pc) + 1
                  /\ rq'[r].pc # "done"
                  /\ rq'[r].error = ""
               \/ /\ rq[r].pc = "read" /\ rq'[r].pc = "done"
                  /\ rq'[r].status = 200
               \/ /\ rq'[r].pc = "done"
                  /\ rq'[r].status = 500
                  /\ rq'[r].img_data = None
               \/ /\ rq[r].pc = "pending" /\ rq'[r].pc = "done"
                  /\ rq'[r].status = 422]_vars

\* One request went through all stages to a 200, another failed in the
\* crop and was answered 500.
C17_Witness ==
    \E r1 \in Reqs, r2 \in Reqs :
       /\ IsGenerate(r1) /\ Done(r1) /\ rq[r1].status = 200
       /\ IsGenerate(r2) /\ Done(r2) /\ rq[r2].error = "CropError"

\* ----------------------------------------------------------------- C18
\* C18: a request's temporary bitmap exists only after its synthesis and
\* its crop succeeded, its encoder output file only after the bitmap was
\* saved; a request that failed in synthesis or crop has no temporary file,
\* and a request whose bitmap save failed has no encoder output file and
\* ran no encoder.
C18_TempFilesAfterCrop ==
    \A r \in Reqs :
       /\ BmpOf(r) \in files =>
             /\ rq[r].raw # None /\ rq[r].box # None
             /\ StageRank(rq[r].pc) >= 5
       /\ JpgOf(r) \in files =>
             /\ BmpOf(r) \in files
             /\ rq[r].error # "SaveError"
             /\ rq[r].pc \in { "read", "done" }
       /\ rq[r].error \in { "TypeError", "InferenceError", "CropError" } =>
             ~ HasTempFile(r)
       /\ rq[r].error = "SaveError" =>
             /\ JpgOf(r) \notin files
             /\ rq[r].exit = None
       /\ ~ IsGenerate(r) => ~ HasTempFile(r)

\* A failed synthesis and a failed bitmap save, next to each other.
C18_Witness ==
    \E r1 \in Reqs, r2 \in Reqs :
       /\ rq[r1].error = "InferenceError" /\ ~ HasTempFile(r1)
       /\ rq[r2].error = "SaveError" /\ BmpOf(r2) \in files
====
